---- MODULE Spec2Model ----
(***************************************************************************)
(* The borrowing workflow of the Nalanda library API: the routes of        *)
(* borrow.route.mjs, BorrowController, BorrowUseCase and BorrowRepository  *)
(* over the Book and Borrow collections.  Every database call is one       *)
(* atomic step; the JavaScript between two awaits runs with the call that  *)
(* precedes it.  Each process is one client connection that sends a        *)
(* request, waits for the response and then sends the next one.            *)
(***************************************************************************)
EXTENDS Integers, Sequences, FiniteSets, TLC

\* ------------------------------------------------------------------ bounds
MaxCopies == 1
MaxBorrows == 2

\* ------------------------------------------------------------- value sets
Books == {"b1", "b2"}
NoBook == "b0"
NoValue == "none"
NoDate == 0
DueDates == {90}
\* a dueDate that is present but is no date, such as "soon"
BadDate == 0 - 1
Users == {"u1", "u2", "a1"}
Anonymous == "anon"
Procs == {"p1", "p2"}
Racers == {"u1"}

Role(u) == IF u = "a1" THEN "Admin" ELSE "Member"

VARIABLES
  books,      \* Book collection: id -> copies
  borrows,    \* Borrow collection in creation order; a record's id is its index
  clock,      \* per record, the last value Date.now / new Date() handed out for it
  pc,         \* where each connection's request stands
  ctx,        \* the request and the handler's local documents
  resp,       \* the response a connection is reading
  created,    \* history: the copies each book was created with
  lastBorrow  \* history: per book, its latest borrow while nothing else has touched the book since

vars == <<books, borrows, clock, pc, ctx, resp, created, lastBorrow>>

\* ------------------------------------------------------------- documents
NoQuery == [userId |-> NoValue, bookId |-> NoValue, status |-> NoValue, page |-> 0, limit |-> 0]
\* top: the top parameter of a report, <<>> when absent, <<n>> when it reads n;
\* body: the copies field of a book update's body, <<>> when the body has none;
\* bodyUser: the userId field of a borrow request's body; userId: the userId the
\* controller hands to borrowBook
NoCtx == [op |-> NoValue, user |-> NoValue, bookId |-> NoValue, dueDate |-> NoDate,
          borrowId |-> 0, copies |-> 0, date |-> NoDate, query |-> NoQuery,
          top |-> <<>>, body |-> <<>>, bodyUser |-> NoValue, userId |-> NoValue]
NoMeta == [total |-> 0, page |-> 0, pages |-> 0, limit |-> 0]
NoResp == [status |-> 0, message |-> NoValue, data |-> <<>>, meta |-> NoMeta]
\* rec: the record the borrow created; pre: the copies the borrow found;
\* returned: that record has been returned, again with nothing else in between
NoTrail == [rec |-> 0, pre |-> 0, returned |-> FALSE]

Json(status, message) == [status |-> status, message |-> message, data |-> <<>>, meta |-> NoMeta]
JsonData(status, docs) == [status |-> status, message |-> NoValue, data |-> docs, meta |-> NoMeta]

\* errorHandler: every thrown error becomes a 500 carrying err.message
errorHandler(message) == Json(500, message)

\* a slip in the creation: the due date is stamped with the clock, not the supplied value
BorrowDueNow(userId, bookId, dueDate, now) ==
  [userId |-> userId, bookId |-> bookId, borrowDate |-> now, dueDate |-> now,
   returnDate |-> NoDate, status |-> "borrowed"]

\* a slip in the schema default: records are born overdue
BorrowOverdue(userId, bookId, dueDate, now) ==
  [userId |-> userId, bookId |-> bookId, borrowDate |-> now, dueDate |-> dueDate,
   returnDate |-> NoDate, status |-> "overdue"]

\* new Borrow(data): schema defaults fill borrowDate and status, returnDate stays unset
Borrow(userId, bookId, dueDate, now) ==
  [userId |-> userId, bookId |-> bookId, borrowDate |-> now, dueDate |-> dueDate,
   returnDate |-> NoDate, status |-> "borrowed"]

\* ------------------------------------------------------------ middleware
authenticate(caller) == caller # Anonymous
authorize(roles, caller) == Role(caller) \in roles

\* the response the two middlewares send when they stop a request, NoResp when they pass it on
Guarded(roles, caller) ==
  IF ~authenticate(caller) THEN Json(401, "Unauthorized")
  ELSE IF ~authorize(roles, caller) THEN Json(403, "Forbidden")
  ELSE NoResp

\* --------------------------------------------------------------- helpers
Respond(p, c, r) ==
  /\ pc' = [pc EXCEPT ![p] = "responded"]
  /\ ctx' = [ctx EXCEPT ![p] = c]
  /\ resp' = [resp EXCEPT ![p] = r]

Goto(p, label, c) ==
  /\ pc' = [pc EXCEPT ![p] = label]
  /\ ctx' = [ctx EXCEPT ![p] = c]
  /\ UNCHANGED resp

BorrowedOf(b) == {i \in 1..Len(borrows) : borrows[i].bookId = b /\ borrows[i].status = "borrowed"}
InFlightBorrows == {q \in Procs : pc[q] \in {"borrow_save", "borrow_create"}}

\* a slip in the availability check: < for <=
NotAvailableStrict(copies) == copies < 0

\* book.copies <= 0 in borrowBook
NotAvailable(copies) == copies <= 0

\* book.copies -= 1 in borrowBook
Decremented(copies) == copies - 1

\* a slip in the double-return guard: only overdue records are refused
NotBorrowedOverdue(doc) == doc.status = "overdue"

\* borrow.status !== "borrowed" in returnBook
NotBorrowed(doc) == doc.status # "borrowed"

\* a slip in the return: the count goes up by two
IncrementedTwice(copies) == copies + 2

\* a slip in the return: the increment is forgotten
IncrementedNot(copies) == copies

\* book.copies += 1 in returnBook
Incremented(copies) == copies + 1

\* bookSchema: copies has min 0, checked by save()
ValidCopies(copies) == copies >= 0

\* borrowSchema: dueDate is a Date, cast and checked by save()
ValidDate(date) == date > NoDate

\* ---------------------------------------------------------------- Init
Init ==
  /\ books \in [Books -> 0..MaxCopies]
  /\ borrows = <<>>
  /\ clock = <<>>
  /\ pc = [p \in Procs |-> "idle"]
  /\ ctx = [p \in Procs |-> NoCtx]
  /\ resp = [p \in Procs |-> NoResp]
  /\ created = books
  /\ lastBorrow = [b \in Books |-> NoTrail]

\* ------------------------------------------------------- POST /borrow
\* a slip in the controller: the body's userId is preferred to the token's
UserIdBodyFirst(caller, bodyUser) == IF bodyUser # NoValue THEN bodyUser ELSE caller

\* req.user?.id || req.body.userId: the id of the token when there is one
UserId(caller, bodyUser) == IF caller # Anonymous THEN caller ELSE bodyUser

\* a slip in the checks: the two merged into one, !book || book.copies <= 0,
\* so that a missing book is reported as unavailable
PostBorrowMerged(p, caller, bodyUser, bookId, dueDate) ==
  /\ pc[p] = "idle"
  /\ UNCHANGED <<books, borrows, clock, created, lastBorrow>>
  /\ LET stop == Guarded({"Member", "Admin"}, caller)
         req == [NoCtx EXCEPT !.op = "borrow", !.user = caller, !.bodyUser = bodyUser,
                              !.userId = UserId(caller, bodyUser),
                              !.bookId = bookId, !.dueDate = dueDate]
     IN
     IF stop # NoResp THEN Respond(p, req, stop)
     ELSE IF req.userId = NoValue THEN Respond(p, req, Json(400, "userId is required"))
     ELSE IF bookId = NoValue \/ dueDate = NoDate
       THEN Respond(p, req, Json(400, "bookId and dueDate are required"))
     ELSE IF bookId \notin DOMAIN books \/ NotAvailable(books[bookId])
       THEN Respond(p, req, errorHandler("Book not available"))
     ELSE /\ Len(borrows) + Cardinality(InFlightBorrows) < MaxBorrows
          /\ Goto(p, "borrow_save", [req EXCEPT !.copies = Decremented(books[bookId])])

\* route middlewares, BorrowController.borrowBook and BorrowUseCase.borrowBook
\* up to the end of Book.findById and the checks and the local decrement after it
PostBorrow(p, caller, bodyUser, bookId, dueDate) ==
  /\ pc[p] = "idle"
  /\ UNCHANGED <<books, borrows, clock, created, lastBorrow>>
  /\ LET stop == Guarded({"Member", "Admin"}, caller)
         req == [NoCtx EXCEPT !.op = "borrow", !.user = caller, !.bodyUser = bodyUser,
                              !.userId = UserId(caller, bodyUser),
                              !.bookId = bookId, !.dueDate = dueDate]
     IN
     IF stop # NoResp THEN Respond(p, req, stop)
     ELSE IF req.userId = NoValue THEN Respond(p, req, Json(400, "userId is required"))
     ELSE IF bookId = NoValue \/ dueDate = NoDate
       THEN Respond(p, req, Json(400, "bookId and dueDate are required"))
     ELSE IF bookId \notin DOMAIN books THEN Respond(p, req, errorHandler("Book not found"))
     ELSE IF NotAvailable(books[bookId]) THEN Respond(p, req, errorHandler("Book not available"))
     ELSE /\ Len(borrows) + Cardinality(InFlightBorrows) < MaxBorrows
          /\ Goto(p, "borrow_save", [req EXCEPT !.copies = Decremented(books[bookId])])

\* the decrement written as an unconditional update of the stored count
\* (updateOne with $inc: -1, which runs no validator) instead of book.save()
BorrowSaveInc(p) ==
  /\ pc[p] = "borrow_save"
  /\ UNCHANGED <<borrows, clock, created>>
  /\ books' = [books EXCEPT ![ctx[p].bookId] = @ - 1]
  /\ lastBorrow' = [lastBorrow EXCEPT ![ctx[p].bookId] = NoTrail]
  /\ Goto(p, "borrow_create", ctx[p])

\* await book.save(): writes the document's copies, after schema validation
BorrowSave(p) ==
  /\ pc[p] = "borrow_save"
  /\ UNCHANGED <<borrows, clock, created>>
  /\ LET b == ctx[p].bookId IN
     IF b \in DOMAIN books /\ ValidCopies(ctx[p].copies)
     THEN /\ books' = [books EXCEPT ![b] = ctx[p].copies]
          /\ lastBorrow' = [lastBorrow EXCEPT ![b] = NoTrail]
          /\ Goto(p, "borrow_create", ctx[p])
     ELSE /\ UNCHANGED <<books, lastBorrow>>
          /\ Respond(p, ctx[p], errorHandler("Book save failed"))

\* a createBorrow whose failure is compensated: the copy is given back
BorrowCreateCompensating(p) ==
  /\ pc[p] = "borrow_create"
  /\ UNCHANGED created
  /\ LET doc == Borrow(ctx[p].userId, ctx[p].bookId, ctx[p].dueDate, 1) IN
     IF ValidDate(ctx[p].dueDate)
     THEN /\ borrows' = Append(borrows, doc)
          /\ clock' = Append(clock, 1)
          /\ lastBorrow' = [lastBorrow EXCEPT ![ctx[p].bookId] =
                              [rec |-> Len(borrows) + 1, pre |-> ctx[p].copies + 1, returned |-> FALSE]]
          /\ UNCHANGED books
          /\ Respond(p, ctx[p], JsonData(201, <<doc>>))
     ELSE /\ books' = [books EXCEPT ![ctx[p].bookId] = @ + 1]
          /\ UNCHANGED <<borrows, clock, lastBorrow>>
          /\ Respond(p, ctx[p], errorHandler("Borrow validation failed"))

\* await this.borrowRepository.createBorrow(...): new Borrow(data).save() validates
\* the document and rejects when dueDate is no date; then the 201 response
BorrowCreate(p) ==
  /\ pc[p] = "borrow_create"
  /\ UNCHANGED <<books, created>>
  /\ LET doc == Borrow(ctx[p].userId, ctx[p].bookId, ctx[p].dueDate, 1) IN
     IF ValidDate(ctx[p].dueDate)
     THEN /\ borrows' = Append(borrows, doc)
          /\ clock' = Append(clock, 1)
          /\ lastBorrow' = [lastBorrow EXCEPT ![ctx[p].bookId] =
                              [rec |-> Len(borrows) + 1, pre |-> ctx[p].copies + 1, returned |-> FALSE]]
          /\ Respond(p, ctx[p], JsonData(201, <<doc>>))
     ELSE /\ UNCHANGED <<borrows, clock, lastBorrow>>
          /\ Respond(p, ctx[p], errorHandler("Borrow validation failed"))

\* ------------------------------------------------ PUT /:borrowId/return
\* a slip in the update: the whole local document is written, due date restamped
UpdatedRestamped(p) ==
  [borrows[ctx[p].borrowId] EXCEPT !.status = "returned", !.returnDate = ctx[p].date,
                                   !.dueDate = ctx[p].date]

\* the document findByIdAndUpdate(..., {new: true}) handed back to returnBook
Updated(p) == [borrows[ctx[p].borrowId] EXCEPT !.status = "returned", !.returnDate = ctx[p].date]

\* populate("bookId", ...): the referenced book, null when it has been deleted
Populated(bookId) == IF bookId \in DOMAIN books THEN bookId ELSE NoValue

\* route middlewares, BorrowController.returnBook and BorrowUseCase.returnBook
\* up to the end of borrowRepository.findById, the checks and the local new Date()
PutReturn(p, caller, borrowId) ==
  /\ pc[p] = "idle"
  /\ UNCHANGED <<books, borrows, created, lastBorrow>>
  /\ LET stop == Guarded({"Member", "Admin"}, caller)
         req == [NoCtx EXCEPT !.op = "return", !.user = caller, !.borrowId = borrowId]
     IN
     IF stop # NoResp THEN Respond(p, req, stop) /\ UNCHANGED clock
     ELSE IF borrowId \notin 1..Len(borrows)
       THEN Respond(p, req, errorHandler("Borrow record not found")) /\ UNCHANGED clock
     ELSE IF NotBorrowed(borrows[borrowId])
       THEN Respond(p, req, errorHandler("This book is not currently borrowed")) /\ UNCHANGED clock
     ELSE /\ clock' = [clock EXCEPT ![borrowId] = @ + 1]
          /\ Goto(p, "return_update",
                  [req EXCEPT !.bookId = Populated(borrows[borrowId].bookId),
                              !.date = clock[borrowId] + 1])

\* await this.borrowRepository.updateBorrow(borrowId, {status, returnDate})
ReturnUpdate(p) ==
  /\ pc[p] = "return_update"
  /\ UNCHANGED <<books, clock, created>>
  /\ borrows' = [borrows EXCEPT ![ctx[p].borrowId] = Updated(p)]
  /\ lastBorrow' = [b \in Books |->
                      IF b = ctx[p].bookId /\ (lastBorrow[b].rec # ctx[p].borrowId \/ lastBorrow[b].returned)
                      THEN NoTrail ELSE lastBorrow[b]]
  /\ Goto(p, "return_findbook", ctx[p])

\* borrow.bookId._id throws when the populated bookId is null; otherwise
\* await Book.findById(...) and the local increment
ReturnFindBook(p) ==
  /\ pc[p] = "return_findbook"
  /\ UNCHANGED <<books, borrows, clock, created, lastBorrow>>
  /\ IF ctx[p].bookId = NoValue
     THEN Respond(p, ctx[p], errorHandler("Cannot read properties of null (reading '_id')"))
     ELSE IF ctx[p].bookId \in DOMAIN books
     THEN Goto(p, "return_save", [ctx[p] EXCEPT !.copies = Incremented(books[ctx[p].bookId])])
     ELSE Respond(p, ctx[p], JsonData(200, <<Updated(p)>>))

\* await book.save(), then the 200 response
ReturnSave(p) ==
  /\ pc[p] = "return_save"
  /\ UNCHANGED <<borrows, clock, created>>
  /\ LET b == ctx[p].bookId IN
     IF b \in DOMAIN books /\ ValidCopies(ctx[p].copies)
     THEN /\ books' = [books EXCEPT ![b] = ctx[p].copies]
          /\ lastBorrow' = [lastBorrow EXCEPT ![b] =
                              IF @.rec = ctx[p].borrowId /\ ~@.returned
                              THEN [@ EXCEPT !.returned = TRUE] ELSE NoTrail]
          /\ Respond(p, ctx[p], JsonData(200, <<Updated(p)>>))
     ELSE /\ UNCHANGED <<books, lastBorrow>>
          /\ Respond(p, ctx[p], errorHandler("Book save failed"))

\* a failure handler that undoes the status update
ReturnFailsRollback(p) ==
  /\ pc[p] \in {"return_findbook", "return_save"}
  /\ UNCHANGED <<books, clock, created, lastBorrow>>
  /\ borrows' = [borrows EXCEPT ![ctx[p].borrowId] =
                   [@ EXCEPT !.status = "borrowed", !.returnDate = NoDate]]
  /\ Respond(p, ctx[p], errorHandler("database error"))

\* Book.findById or book.save() rejects (the database is unreachable): returnBook
\* throws after updateBorrow has committed, and the controller passes the error on
ReturnFails(p) ==
  /\ pc[p] \in {"return_findbook", "return_save"}
  /\ UNCHANGED <<books, borrows, clock, created, lastBorrow>>
  /\ Respond(p, ctx[p], errorHandler("database error"))

\* ------------------------------------------------------------ GET /
\* mongoose.Types.ObjectId(id): the ObjectId of a valid id string; two are equal
\* exactly when the strings are, so the ObjectId is modelled by its string
ObjectId(id) == id

DefaultPage == 1
DefaultLimit == 10

\* parseInt(v, 10) || d: an absent, non-numeric or zero parameter (0 here) gives d
ParseOr(v, d) == IF v = 0 THEN d ELSE v

\* a slip in the window: pages counted from 0
getPaginationFromZero(query) ==
  LET page == ParseOr(query.page, DefaultPage)
      limit == ParseOr(query.limit, DefaultLimit)
  IN [page |-> page, limit |-> limit, skip |-> page * limit]

getPagination(query) ==
  LET page == ParseOr(query.page, DefaultPage)
      limit == ParseOr(query.limit, DefaultLimit)
  IN [page |-> page, limit |-> limit, skip |-> (page - 1) * limit]

\* pages is Math.ceil(total / limit)
getMeta(total, page, limit) ==
  [total |-> total, page |-> page, pages |-> (total + limit - 1) \div limit, limit |-> limit]

\* the filters without the Member branch: no userId in the query, no userId filter
ListFiltersOpen(query, caller) ==
  [userId |-> IF query.userId # NoValue THEN ObjectId(query.userId) ELSE NoValue,
   bookId |-> IF query.bookId # NoValue THEN ObjectId(query.bookId) ELSE NoValue,
   status |-> query.status]

\* the filters BorrowUseCase.listBorrows builds; buildSearchQuery(query, []) adds nothing
ListFilters(query, caller) ==
  [userId |-> IF query.userId # NoValue THEN ObjectId(query.userId)
              ELSE IF Role(caller) = "Member" THEN ObjectId(caller)
              ELSE NoValue,
   bookId |-> IF query.bookId # NoValue THEN ObjectId(query.bookId) ELSE NoValue,
   status |-> query.status]

\* a Mongo equality filter: every field the filter names must be equal
Matches(doc, f) ==
  /\ f.userId = NoValue \/ doc.userId = f.userId
  /\ f.bookId = NoValue \/ doc.bookId = f.bookId
  /\ f.status = NoValue \/ doc.status = f.status

Reverse(s) == [i \in 1..Len(s) |-> s[Len(s) + 1 - i]]

\* Borrow.find(query).sort({createdAt: -1}).skip(skip).limit(limit)
Find(ledger, f, skip, limit) ==
  LET sorted == Reverse(SelectSeq(ledger, LAMBDA d : Matches(d, f)))
      last == IF skip + limit < Len(sorted) THEN skip + limit ELSE Len(sorted)
  IN SubSeq(sorted, skip + 1, last)

\* Borrow.countDocuments(query)
countDocuments(ledger, f) == Len(SelectSeq(ledger, LAMBDA d : Matches(d, f)))

\* BorrowUseCase.listBorrows(query, currentUser)
listBorrows(ledger, query, caller) ==
  LET pg == getPagination(query)
      f == ListFilters(query, caller)
  IN [borrows |-> Find(ledger, f, pg.skip, pg.limit),
      meta |-> getMeta(countDocuments(ledger, f), pg.page, pg.limit)]

\* route middlewares, BorrowController.listBorrows and the 200 response
GetBorrows(p, caller, query) ==
  /\ pc[p] = "idle"
  /\ UNCHANGED <<books, borrows, clock, created, lastBorrow>>
  /\ LET stop == Guarded({"Admin", "Member"}, caller)
         req == [NoCtx EXCEPT !.op = "list", !.user = caller, !.query = query]
         result == listBorrows(borrows, query, caller)
     IN
     IF stop # NoResp THEN Respond(p, req, stop)
     ELSE Respond(p, req, [status |-> 200, message |-> NoValue,
                           data |-> result.borrows, meta |-> result.meta])

\* ------------------------------------------------------ GET /reports/...
DefaultTop == 10

\* a slip in the report routes: the roles of the workflow routes
ReportRolesOpen == {"Admin", "Member"}

\* the three report routes admit one role
ReportRoles == {"Admin"}

\* req.query.top || 10, then Number(top): an absent parameter gives 10; "0" is a
\* non-empty string and stays 0
TopOf(top) == IF top = <<>> THEN DefaultTop ELSE top[1]

\* $group: {_id: "$<key>", borrowCount: {$sum: 1}}: one group per value of the key
Group(ledger, key) ==
  {[id |-> k, borrowCount |-> Cardinality({i \in 1..Len(ledger) : ledger[i][key] = k})] :
     k \in {ledger[i][key] : i \in 1..Len(ledger)}}

\* the sequences that list every element of S once
Orderings(S) ==
  {s \in [1..Cardinality(S) -> S] : \A i, j \in 1..Cardinality(S) : i # j => s[i] # s[j]}

\* $sort: {borrowCount: -1}: the groups in an order of non-increasing borrowCount;
\* the stage names no other key, so groups with equal counts come in any order
SortDesc(groups) ==
  {s \in Orderings(groups) : \A i \in 1..(Len(s) - 1) : s[i].borrowCount >= s[i + 1].borrowCount}

\* a slip in the truncation: one entry too many
LimitOneMore(s, top) == SubSeq(s, 1, IF top + 1 < Len(s) THEN top + 1 ELSE Len(s))

\* $limit: top
Limit(s, top) == SubSeq(s, 1, IF top < Len(s) THEN top ELSE Len(s))

\* $lookup into a collection, then $unwind: a group whose _id has no document
\* there has an empty array and is dropped
Unwind(s, ids) == SelectSeq(s, LAMBDA g : g.id \in ids)

\* $project of mostBorrowedBooks (title, author and ISBN are not modelled)
ProjectBook(s) == [i \in 1..Len(s) |-> [bookId |-> s[i].id, borrowCount |-> s[i].borrowCount]]

\* $project of activeMembers
ProjectUser(s) == [i \in 1..Len(s) |-> [userId |-> s[i].id, borrowCount |-> s[i].borrowCount]]

\* BorrowRepository.mostBorrowedBooks({top}): the lists the pipeline can produce
mostBorrowedBooks(ledger, store, top) ==
  {ProjectBook(Unwind(Limit(s, top), DOMAIN store)) :
     s \in SortDesc(Group(ledger, "bookId"))}

\* BorrowRepository.activeMembers({top}); every user has a document in users
activeMembers(ledger, top) ==
  {ProjectUser(Unwind(Limit(s, top), Users)) :
     s \in SortDesc(Group(ledger, "userId"))}

\* the books collection in its natural order
Shelf == <<"b1", "b2">>

\* a slip in the inner pipeline: the $match on status is missing
BorrowInfoAll(ledger, b) ==
  LET n == Cardinality({i \in 1..Len(ledger) : ledger[i].bookId = b})
  IN IF n = 0 THEN <<>> ELSE <<[borrowedCount |-> n]>>

\* the inner pipeline of the $lookup: $match on bookId and status "borrowed",
\* then $count, which yields no document when nothing matched
BorrowInfo(ledger, b) ==
  LET n == Cardinality({i \in 1..Len(ledger) : ledger[i].bookId = b /\ ledger[i].status = "borrowed"})
  IN IF n = 0 THEN <<>> ELSE <<[borrowedCount |-> n]>>

\* $ifNull: [{$arrayElemAt: ["$borrowInfo.borrowedCount", 0]}, 0]
BorrowedCount(info) == IF info = <<>> THEN 0 ELSE info[1].borrowedCount

\* $addFields and the final $project, for one book
Summary(ledger, store, b) ==
  [bookId |-> b,
   totalCopies |-> store[b],
   borrowedCopies |-> BorrowedCount(BorrowInfo(ledger, b)),
   availableCopies |-> store[b] - BorrowedCount(BorrowInfo(ledger, b))]

\* a slip in the totals: the raw value, not clamped
Unclamped(a, b) == b

\* Math.max
Max(a, b) == IF a >= b THEN a ELSE b

NoTotals == [totalBooks |-> 0, borrowedBooks |-> 0, availableBooks |-> 0]

\* booksSummary.reduce(...)
RECURSIVE Totals(_)
Totals(perBook) ==
  IF perBook = <<>> THEN NoTotals
  ELSE LET acc == Totals(SubSeq(perBook, 1, Len(perBook) - 1))
           b == perBook[Len(perBook)]
       IN [totalBooks |-> acc.totalBooks + b.totalCopies,
           borrowedBooks |-> acc.borrowedBooks + b.borrowedCopies,
           availableBooks |-> acc.availableBooks + Max(0, b.availableCopies)]

\* BorrowRepository.bookAvailabilitySummary()
bookAvailabilitySummary(ledger, store) ==
  LET stored == SelectSeq(Shelf, LAMBDA b : b \in DOMAIN store)
      perBook == [i \in 1..Len(stored) |-> Summary(ledger, store, stored[i])]
  IN [perBook |-> perBook, totals |-> Totals(perBook)]

\* GET /reports/most-borrowed: middlewares, BorrowController.mostBorrowed and
\* BorrowUseCase.getMostBorrowed; a $limit that is not positive fails the aggregate
GetMostBorrowed(p, caller, top) ==
  /\ pc[p] = "idle"
  /\ UNCHANGED <<books, borrows, clock, created, lastBorrow>>
  /\ LET stop == Guarded(ReportRoles, caller)
         req == [NoCtx EXCEPT !.op = "mostBorrowed", !.user = caller, !.top = top]
     IN
     IF stop # NoResp THEN Respond(p, req, stop)
     ELSE IF TopOf(top) <= 0 THEN Respond(p, req, errorHandler("the limit must be positive"))
     ELSE \E data \in mostBorrowedBooks(borrows, books, TopOf(top)) :
            Respond(p, req, JsonData(200, data))

\* GET /reports/active-members
GetActiveMembers(p, caller, top) ==
  /\ pc[p] = "idle"
  /\ UNCHANGED <<books, borrows, clock, created, lastBorrow>>
  /\ LET stop == Guarded(ReportRoles, caller)
         req == [NoCtx EXCEPT !.op = "activeMembers", !.user = caller, !.top = top]
     IN
     IF stop # NoResp THEN Respond(p, req, stop)
     ELSE IF TopOf(top) <= 0 THEN Respond(p, req, errorHandler("the limit must be positive"))
     ELSE \E data \in activeMembers(borrows, TopOf(top)) :
            Respond(p, req, JsonData(200, data))

\* a slip in the report: it writes what it computed back, storing each book's
\* clamped availableCopies as its copies
GetAvailabilityRepair(p, caller) ==
  /\ pc[p] = "idle"
  /\ UNCHANGED <<borrows, clock, created, lastBorrow>>
  /\ LET stop == Guarded(ReportRoles, caller)
         req == [NoCtx EXCEPT !.op = "availability", !.user = caller]
     IN
     IF stop # NoResp THEN Respond(p, req, stop) /\ UNCHANGED books
     ELSE /\ books' = [b \in DOMAIN books |-> Max(0, Summary(borrows, books, b).availableCopies)]
          /\ Respond(p, req, JsonData(200, <<bookAvailabilitySummary(borrows, books)>>))

\* GET /reports/availability; the data is the one object {perBook, totals}
GetAvailability(p, caller) ==
  /\ pc[p] = "idle"
  /\ UNCHANGED <<books, borrows, clock, created, lastBorrow>>
  /\ LET stop == Guarded(ReportRoles, caller)
         req == [NoCtx EXCEPT !.op = "availability", !.user = caller]
     IN
     IF stop # NoResp THEN Respond(p, req, stop)
     ELSE Respond(p, req, JsonData(200, <<bookAvailabilitySummary(borrows, books)>>))

\* ------------------------------------------------------ PUT /api/books/:id
\* the bodies of a book update: without a copies field, or with one
Bodies == {<<>>} \cup {<<c>> : c \in (0 - 1)..MaxCopies}

\* the book document as the responses carry it
BookDoc(id, copies) == [bookId |-> id, copies |-> copies]

\* route middlewares, BookController.updateBook, BookUseCase.updateBook and
\* Book.findByIdAndUpdate(id, req.body, {new: true}): the body's fields are
\* $set on the stored document; the call runs no schema validator
PutBook(p, caller, id, body) ==
  /\ pc[p] = "idle"
  /\ UNCHANGED <<borrows, clock, created>>
  /\ LET stop == Guarded({"Admin"}, caller)
         req == [NoCtx EXCEPT !.op = "updateBook", !.user = caller, !.bookId = id, !.body = body]
     IN
     IF stop # NoResp THEN Respond(p, req, stop) /\ UNCHANGED <<books, lastBorrow>>
     ELSE IF id \notin DOMAIN books
       THEN Respond(p, req, errorHandler("Book not found")) /\ UNCHANGED <<books, lastBorrow>>
     ELSE LET copies == IF body = <<>> THEN books[id] ELSE body[1] IN
          /\ books' = [books EXCEPT ![id] = copies]
          /\ lastBorrow' = [lastBorrow EXCEPT ![id] = NoTrail]
          /\ Respond(p, req, JsonData(200, <<BookDoc(id, copies)>>))

\* ------------------------------------------------- DELETE /api/books/:id
\* route middlewares, BookController.deleteBook, BookUseCase.deleteBook and
\* Book.findByIdAndDelete(id); the borrow records of the book stay
DeleteBook(p, caller, id) ==
  /\ pc[p] = "idle"
  /\ UNCHANGED <<borrows, clock, created>>
  /\ LET stop == Guarded({"Admin"}, caller)
         req == [NoCtx EXCEPT !.op = "deleteBook", !.user = caller, !.bookId = id]
     IN
     IF stop # NoResp THEN Respond(p, req, stop) /\ UNCHANGED <<books, lastBorrow>>
     ELSE IF id \notin DOMAIN books
       THEN Respond(p, req, errorHandler("Book not found")) /\ UNCHANGED <<books, lastBorrow>>
     ELSE /\ books' = [b \in DOMAIN books \ {id} |-> books[b]]
          /\ lastBorrow' = [lastBorrow EXCEPT ![id] = NoTrail]
          /\ Respond(p, req, Json(200, "Book deleted successfully"))

\* the client reads the response and may send its next request
Receive(p) ==
  /\ pc[p] = "responded"
  /\ pc' = [pc EXCEPT ![p] = "idle"]
  /\ resp' = [resp EXCEPT ![p] = NoResp]
  /\ ctx' = [ctx EXCEPT ![p] = NoCtx]
  /\ UNCHANGED <<books, borrows, clock, created, lastBorrow>>

\* ----------------------------------------------------- specifications
Step(p, callers, bodyUsers, bookIds, dueDates) ==
  \/ \E caller \in callers, bodyUser \in bodyUsers, bookId \in bookIds, dueDate \in dueDates :
        PostBorrow(p, caller, bodyUser, bookId, dueDate)
  \/ BorrowSave(p)
  \/ BorrowCreate(p)
  \/ \E caller \in callers, borrowId \in 1..MaxBorrows : PutReturn(p, caller, borrowId)
  \/ ReturnUpdate(p)
  \/ ReturnFindBook(p)
  \/ ReturnSave(p)
  \/ Receive(p)

\* requests of different connections interleave at every database call
Next == \E p \in Procs : Step(p, Racers, {NoValue}, Books, DueDates)
Spec == Init /\ [][Next]_vars

\* one request at a time: a single connection, whose requests follow one another
NextSeq ==
  \/ Step("p1", Users \cup {Anonymous}, {NoValue, "u2"}, Books \cup {NoBook, NoValue}, DueDates \cup {NoDate})
  \/ \E caller \in Users \cup {Anonymous} : GetAvailability("p1", caller)
SpecSeq == Init /\ [][NextSeq]_vars

\* listBorrows over the ledgers of up to MaxBorrows records: the ledger is drawn,
\* then a single connection lists it with every caller and every query
Statuses == {"borrowed", "returned"}
LedgerDocs ==
  {[Borrow(u, b, d, 1) EXCEPT !.status = st, !.returnDate = IF st = "returned" THEN 2 ELSE NoDate] :
     u \in Users, b \in Books, d \in DueDates, st \in Statuses}
Ledgers == UNION {[1..n -> LedgerDocs] : n \in 0..MaxBorrows}
Queries ==
  [userId : Users \cup {NoValue}, bookId : Books \cup {NoValue},
   status : Statuses \cup {NoValue}, page : {0, 2}, limit : {0, 1}]

InitList ==
  /\ books = [b \in Books |-> MaxCopies]
  /\ borrows \in Ledgers
  /\ clock = [i \in 1..Len(borrows) |-> IF borrows[i].status = "returned" THEN 2 ELSE 1]
  /\ pc = [p \in Procs |-> "idle"]
  /\ ctx = [p \in Procs |-> NoCtx]
  /\ resp = [p \in Procs |-> NoResp]
  /\ created = books
  /\ lastBorrow = [b \in Books |-> NoTrail]

NextList ==
  \/ \E caller \in Users \cup {Anonymous}, query \in Queries : GetBorrows("p1", caller, query)
  \/ Receive("p1")
SpecList == InitList /\ [][NextList]_vars

\* the reports and the listing over a drawn database: books may have been deleted
\* and their copies rewritten by an Admin, so the stored books and their copies
\* are drawn independently of the ledger
Stores == UNION {[B -> 0..MaxCopies] : B \in SUBSET Books}
Tops == {<<>>, <<0>>, <<1>>, <<2>>}
PlainQueries == {q \in Queries : q.bookId = NoValue /\ q.status = NoValue /\ q.page = 0 /\ q.limit = 0}

InitReport ==
  /\ books \in Stores
  /\ borrows \in Ledgers
  /\ clock = [i \in 1..Len(borrows) |-> IF borrows[i].status = "returned" THEN 2 ELSE 1]
  /\ pc = [p \in Procs |-> "idle"]
  /\ ctx = [p \in Procs |-> NoCtx]
  /\ resp = [p \in Procs |-> NoResp]
  /\ created = books
  /\ lastBorrow = [b \in Books |-> NoTrail]

NextReport ==
  \/ \E caller \in Users \cup {Anonymous}, top \in Tops : GetMostBorrowed("p1", caller, top)
  \/ \E caller \in Users \cup {Anonymous}, top \in Tops : GetActiveMembers("p1", caller, top)
  \/ \E caller \in Users \cup {Anonymous} : GetAvailability("p1", caller)
  \/ \E caller \in Users \cup {Anonymous}, query \in PlainQueries : GetBorrows("p1", caller, query)
  \/ Receive("p1")
SpecReport == InitReport /\ [][NextReport]_vars

\* the workflow, one request at a time, with the Admin's book update beside it
Desk == {"a1"}
NextBooks ==
  \/ Step("p1", Desk, {NoValue}, Books, DueDates)
  \/ \E caller \in Desk, id \in Books \cup {NoBook}, body \in Bodies : PutBook("p1", caller, id, body)
  \/ \E caller \in Desk, id \in Books \cup {NoBook} : DeleteBook("p1", caller, id)
SpecBooks == Init /\ [][NextBooks]_vars

\* the workflow, one request at a time, with the failures that can strike between
\* the two writes of a call: a record rejected by validation, a database error
Clerk == {"u1"}
NextFail ==
  \/ Step("p1", Clerk, {NoValue}, Books, DueDates \cup {BadDate})
  \/ ReturnFails("p1")
SpecFail == Init /\ [][NextFail]_vars

\* ================================================================ claims
RecordsOf(b) == {i \in 1..Len(borrows) : borrows[i].bookId = b}
Returned(b) == {i \in RecordsOf(b) : borrows[i].status = "returned"}

\* p's step is the start of a borrowBook call: the request passed the middlewares
\* and the controller's checks (ctx' holds the request)
StartsBorrow(p) ==
  /\ pc[p] = "idle" /\ pc'[p] # "idle" /\ ctx'[p].op = "borrow"
  /\ ctx'[p].user # Anonymous /\ ctx'[p].bookId # NoValue /\ ctx'[p].dueDate # NoDate

\* p's step is the start of a returnBook call
StartsReturn(p) ==
  /\ pc[p] = "idle" /\ pc'[p] # "idle" /\ ctx'[p].op = "return"
  /\ ctx'[p].user # Anonymous

\* C1: a borrowBook call on a book whose copies is 0 or less ends at once with
\* the error "Book not available", and neither the books nor the ledger change.
C1_UnavailableBorrowFails ==
  [][\A p \in Procs :
       (StartsBorrow(p) /\ ctx'[p].bookId \in DOMAIN books /\ books[ctx'[p].bookId] <= 0)
       => /\ pc'[p] = "responded"
          /\ resp'[p] = errorHandler("Book not available")
          /\ books' = books
          /\ borrows' = borrows]_vars

\* C1 witness: a borrow was refused on a book that had run out through a loan
C1_Witness ==
  \E p \in Procs :
    /\ pc[p] = "responded" /\ ctx[p].op = "borrow"
    /\ resp[p] = errorHandler("Book not available")
    /\ books[ctx[p].bookId] = 0
    /\ BorrowedOf(ctx[p].bookId) # {}

\* C2: with calls running one at a time, a borrowBook call that passes its checks
\* leaves books and ledger alone while it reads, then lowers the target book's
\* copies by exactly 1 and nothing else, then appends exactly one record, which is
\* "borrowed", has no returnDate, carries the caller's id and the supplied bookId
\* and dueDate, and is the data of the 201 response.
C2_BorrowEffect ==
  [][\A p \in Procs :
       /\ (StartsBorrow(p) /\ pc'[p] = "borrow_save") => (books' = books /\ borrows' = borrows)
       /\ (pc[p] = "borrow_save")
          => /\ pc'[p] = "borrow_create"
             /\ books' = [books EXCEPT ![ctx[p].bookId] = @ - 1]
             /\ borrows' = borrows
       /\ (pc[p] = "borrow_create")
          => /\ pc'[p] = "responded" /\ resp'[p].status = 201
             /\ books' = books
             /\ Len(borrows') = Len(borrows) + 1
             /\ SubSeq(borrows', 1, Len(borrows)) = borrows
             /\ LET doc == borrows'[Len(borrows')] IN
                /\ doc.status = "borrowed" /\ doc.returnDate = NoDate
                /\ doc.userId = ctx[p].user /\ doc.bookId = ctx[p].bookId
                /\ doc.dueDate = ctx[p].dueDate
                /\ resp'[p].data = <<doc>>]_vars

\* C2 witness: a borrow has answered 201 and the book is one copy down
C2_Witness ==
  \E p \in Procs :
    /\ pc[p] = "responded" /\ ctx[p].op = "borrow" /\ resp[p].status = 201
    /\ Len(borrows) = 1 /\ resp[p].data = <<borrows[1]>>
    /\ books[ctx[p].bookId] = created[ctx[p].bookId] - 1

\* C3: no oversell. A book created with one copy, none of whose records has been
\* returned, has at most one borrow record, however the borrowBook calls on it
\* interleave: of the calls that found copies = 1 exactly one succeeds.
C3_NoOversell ==
  \A b \in Books :
    (created[b] = 1 /\ Returned(b) = {}) => Cardinality(RecordsOf(b)) <= 1

\* C4: for every book, the records in state "borrowed" are at most its copies.
C4_BorrowedWithinCopies ==
  \A b \in Books : Cardinality(BorrowedOf(b)) <= books[b]

\* C5: a record leaves "borrowed" only to become "returned" with a returnDate,
\* a "returned" record never becomes anything else, and a returnBook call on a
\* record that is already "returned" ends at once with the error "This book is
\* not currently borrowed" and changes neither the ledger nor any book's copies.
C5_ReturnedOnce ==
  [][/\ \A i \in 1..Len(borrows) :
          /\ borrows[i].status = "returned" => borrows'[i].status = "returned"
          /\ (borrows[i].status = "borrowed" /\ borrows'[i].status # "borrowed")
             => (borrows'[i].status = "returned" /\ borrows'[i].returnDate # NoDate)
     /\ \A p \in Procs :
          (/\ StartsReturn(p)
           /\ ctx'[p].borrowId \in 1..Len(borrows)
           /\ borrows[ctx'[p].borrowId].status = "returned")
          => /\ pc'[p] = "responded"
             /\ resp'[p] = errorHandler("This book is not currently borrowed")
             /\ books' = books
             /\ borrows' = borrows]_vars

\* C5 witness: a second return of a returned record has been refused
C5_Witness ==
  \E p \in Procs :
    /\ pc[p] = "responded" /\ ctx[p].op = "return"
    /\ resp[p] = errorHandler("This book is not currently borrowed")
    /\ borrows[ctx[p].borrowId].status = "returned"
    /\ borrows[ctx[p].borrowId].returnDate # NoDate

\* C6: round trip. With calls running one at a time, once a borrow of a book
\* and the return of the record it created have both succeeded with no other
\* change to that book in between, the book's copies is what the borrow found.
C6_RoundTrip ==
  \A b \in Books : lastBorrow[b].returned => books[b] = lastBorrow[b].pre

\* C6 witness: such a round trip is complete on a book that had a copy
C6_Witness ==
  \E b \in Books :
    /\ lastBorrow[b].returned /\ lastBorrow[b].pre > 0
    /\ borrows[lastBorrow[b].rec].status = "returned"

\* C7: under every interleaving of borrowBook and returnBook calls, every
\* book's copies is at least 0.
C7_CopiesNonNegative == \A b \in Books : books[b] >= 0

\* C7 witness: two borrows of the last copy are both past the availability
\* check, one has already written copies = 0 and the other is about to write
C7_Witness ==
  \E p, q \in Procs :
    /\ p # q /\ pc[p] = "borrow_create" /\ pc[q] = "borrow_save"
    /\ ctx[p].bookId = ctx[q].bookId /\ books[ctx[p].bookId] = 0

\* the caller's own records that pass the bookId and status parameters of q
OwnMatching(u, q) ==
  {i \in 1..Len(borrows) :
     /\ borrows[i].userId = u
     /\ q.bookId = NoValue \/ borrows[i].bookId = q.bookId
     /\ q.status = NoValue \/ borrows[i].status = q.status}

\* p has the answer to a listing sent by a Member
MemberListed(p) ==
  /\ pc[p] = "responded" /\ ctx[p].op = "list"
  /\ ctx[p].user # Anonymous /\ Role(ctx[p].user) = "Member"

\* C8: a listing sent by a Member with no userId parameter answers 200 with
\* records of the caller only, and its total is the number of the caller's own
\* records that pass the other filters, whatever else the ledger holds.
C8_MemberSeesOwn ==
  \A p \in Procs :
    (MemberListed(p) /\ ctx[p].query.userId = NoValue)
    => /\ resp[p].status = 200
       /\ \A k \in 1..Len(resp[p].data) : resp[p].data[k].userId = ctx[p].user
       /\ resp[p].meta.total = Cardinality(OwnMatching(ctx[p].user, ctx[p].query))

\* C8 witness: the ledger holds another user's record and the Member's unfiltered
\* listing returned a record
C8_Witness ==
  \E p \in Procs :
    /\ MemberListed(p) /\ ctx[p].query.userId = NoValue
    /\ resp[p].data # <<>>
    /\ \E i \in 1..Len(borrows) : borrows[i].userId # ctx[p].user

\* C9: whatever query a Member sends, userId parameter included, every record
\* in the answer belongs to that Member.
C9_MemberNeverSeesOthers ==
  \A p \in Procs :
    MemberListed(p)
    => \A k \in 1..Len(resp[p].data) : resp[p].data[k].userId = ctx[p].user

\* C10: a return request succeeds only for the record's borrower or an Admin.
C10_OnlyBorrowerOrAdminReturns ==
  \A p \in Procs :
    (pc[p] = "responded" /\ ctx[p].op = "return" /\ resp[p].status = 200)
    => \/ ctx[p].user = borrows[ctx[p].borrowId].userId
       \/ Role(ctx[p].user) = "Admin"

\* p has the 200 answer to a request of the given kind
Answered(p, op) == pc[p] = "responded" /\ ctx[p].op = op /\ resp[p].status = 200

RECURSIVE SumOver(_, _)
SumOver(S, f) ==
  IF S = {} THEN 0 ELSE LET x == CHOOSE y \in S : TRUE IN f[x] + SumOver(S \ {x}, f)

\* C11: the availability report has exactly one entry for every stored book and
\* none for any other; the entry's totalCopies is the book's current copies, its
\* borrowedCopies the number of the book's records whose status is "borrowed"
\* (0 when it has none), its availableCopies their difference, not clamped.
C11_AvailabilityPerBook ==
  \A p \in Procs :
    Answered(p, "availability")
    => LET perBook == resp[p].data[1].perBook IN
       /\ \A k \in 1..Len(perBook) : perBook[k].bookId \in DOMAIN books
       /\ \A b \in DOMAIN books :
            /\ Cardinality({k \in 1..Len(perBook) : perBook[k].bookId = b}) = 1
            /\ \A k \in 1..Len(perBook) :
                 perBook[k].bookId = b
                 => /\ perBook[k].totalCopies = books[b]
                    /\ perBook[k].borrowedCopies = Cardinality(BorrowedOf(b))
                    /\ perBook[k].availableCopies = books[b] - Cardinality(BorrowedOf(b))

\* C11 witness: the report covers a book with a borrowed and a returned record,
\* counted as one borrowed copy, and a book with no borrowed record, counted as 0
C11_Witness ==
  \E p \in Procs :
    /\ Answered(p, "availability")
    /\ LET perBook == resp[p].data[1].perBook IN
       /\ \E k \in 1..Len(perBook) :
            /\ perBook[k].borrowedCopies = 1
            /\ Returned(perBook[k].bookId) # {}
            /\ perBook[k].availableCopies = perBook[k].totalCopies - 1
       /\ \E k \in 1..Len(perBook) : perBook[k].borrowedCopies = 0

\* C12: the totals of the availability report are the sums over the stored books
\* of copies, of borrowed records and of max(0, copies - borrowed records), so
\* availableBooks is never negative.
C12_AvailabilityTotals ==
  \A p \in Procs :
    Answered(p, "availability")
    => LET totals == resp[p].data[1].totals
           borrowed == [b \in DOMAIN books |-> Cardinality(BorrowedOf(b))]
           available == [b \in DOMAIN books |->
                           IF books[b] > borrowed[b] THEN books[b] - borrowed[b] ELSE 0]
       IN
       /\ totals.totalBooks = SumOver(DOMAIN books, books)
       /\ totals.borrowedBooks = SumOver(DOMAIN books, borrowed)
       /\ totals.availableBooks = SumOver(DOMAIN books, available)
       /\ totals.availableBooks >= 0

\* C12 witness: a report in which one book's availableCopies is negative and
\* another's is positive
C12_Witness ==
  \E p \in Procs :
    /\ Answered(p, "availability")
    /\ LET perBook == resp[p].data[1].perBook IN
       /\ \E k \in 1..Len(perBook) : perBook[k].availableCopies < 0
       /\ \E k \in 1..Len(perBook) : perBook[k].availableCopies > 0

\* C13: copies is the total the library owns, whatever is lent out: the
\* availability report gives every book the copies it was created with as
\* totalCopies, and that number less its outstanding loans as availableCopies.
C13_CopiesIsTotal ==
  \A p \in Procs :
    Answered(p, "availability")
    => LET perBook == resp[p].data[1].perBook IN
       \A k \in 1..Len(perBook) :
         /\ perBook[k].totalCopies = created[perBook[k].bookId]
         /\ perBook[k].availableCopies =
              created[perBook[k].bookId] - Cardinality(BorrowedOf(perBook[k].bookId))

BookRank(b) == CHOOSE i \in 1..Len(Shelf) : Shelf[i] = b

\* C15: in a most-borrowed report, books with equal borrowCount come in
\* ascending order of bookId, so a ledger has one possible report.
C15_TiesByBookId ==
  \A p \in Procs :
    Answered(p, "mostBorrowed")
    => \A i, j \in 1..Len(resp[p].data) :
         (i < j /\ resp[p].data[i].borrowCount = resp[p].data[j].borrowCount)
         => BookRank(resp[p].data[i].bookId) < BookRank(resp[p].data[j].bookId)

\* the indices of the records that pass the filters of p's listing
Listable(p) ==
  LET q == ctx[p].query
      owner == IF q.userId # NoValue THEN q.userId
               ELSE IF Role(ctx[p].user) = "Member" THEN ctx[p].user ELSE NoValue
  IN {i \in 1..Len(borrows) :
        /\ owner = NoValue \/ borrows[i].userId = owner
        /\ q.bookId = NoValue \/ borrows[i].bookId = q.bookId
        /\ q.status = NoValue \/ borrows[i].status = q.status}

\* the records with the indices in S, latest first
RECURSIVE LatestFirst(_)
LatestFirst(S) ==
  IF S = {} THEN <<>>
  ELSE LET m == CHOOSE i \in S : \A j \in S : j <= i IN <<borrows[m]>> \o LatestFirst(S \ {m})

\* pages 1..n of p's listing, one after the other
RECURSIVE PagesUpTo(_, _)
PagesUpTo(p, n) ==
  IF n = 0 THEN <<>>
  ELSE PagesUpTo(p, n - 1) \o listBorrows(borrows, [ctx[p].query EXCEPT !.page = n], ctx[p].user).borrows

ReportOps == {"mostBorrowed", "activeMembers", "availability"}

\* C17: a report request without a valid token is answered 401 and one from a
\* Member 403, both without data; a report is answered by its handler (200 or
\* the handler's error) only for an Admin.
C17_ReportsAdminOnly ==
  \A p \in Procs :
    (pc[p] = "responded" /\ ctx[p].op \in ReportOps)
    => /\ ctx[p].user = Anonymous => resp[p] = Json(401, "Unauthorized")
       /\ (ctx[p].user # Anonymous /\ Role(ctx[p].user) = "Member")
            => resp[p] = Json(403, "Forbidden")
       /\ resp[p].status \notin {401, 403}
            => (ctx[p].user # Anonymous /\ Role(ctx[p].user) = "Admin")

\* C17 witness: a Member was refused a report that would have had entries
C17_Witness ==
  \E p \in Procs :
    /\ pc[p] = "responded" /\ ctx[p].op \in ReportOps
    /\ ctx[p].user # Anonymous /\ Role(ctx[p].user) = "Member"
    /\ resp[p].status = 403
    /\ borrows # <<>>

\* C18: a borrowBook call whose bookId names no stored book ends at once with
\* the error "Book not found", and neither the books nor the ledger change.
C18_MissingBookFails ==
  [][\A p \in Procs :
       (StartsBorrow(p) /\ ctx'[p].bookId \notin DOMAIN books)
       => /\ pc'[p] = "responded"
          /\ resp'[p] = errorHandler("Book not found")
          /\ books' = books
          /\ borrows' = borrows]_vars

\* C18 witness: a borrow of a missing book was refused while the ledger held a record
C18_Witness ==
  \E p \in Procs :
    /\ pc[p] = "responded" /\ ctx[p].op = "borrow"
    /\ ctx[p].bookId \notin DOMAIN books /\ ctx[p].bookId # NoValue /\ ctx[p].dueDate # NoDate
    /\ resp[p] = errorHandler("Book not found")
    /\ borrows # <<>>

\* C19: a step that answers a report or a listing changes no book and no record.
C19_ReadsDoNotMutate ==
  [][\A p \in Procs :
       (pc[p] = "idle" /\ pc'[p] = "responded" /\ ctx'[p].op \in ReportOps \cup {"list"})
       => (books' = books /\ borrows' = borrows)]_vars

\* C19 witness: a report was answered over a database that holds books and records
C19_Witness ==
  \E p \in Procs :
    /\ Answered(p, "availability")
    /\ DOMAIN books # {} /\ borrows # <<>>
    /\ resp[p].data[1].totals.borrowedBooks > 0

\* C20: once a book exists, its copies changes only by -1 in a borrowBook call
\* and by +1 in a returnBook call; no other request changes it.
C20_CopiesOnlyByWorkflow ==
  [][\A b \in DOMAIN books :
       (b \in DOMAIN books' /\ books'[b] # books[b])
       => \E p \in Procs :
            \/ pc[p] = "borrow_save" /\ ctx[p].bookId = b /\ books'[b] = books[b] - 1
            \/ pc[p] = "return_save" /\ ctx[p].bookId = b /\ books'[b] = books[b] + 1]_vars

\* p takes the step
Acts(p) == pc'[p] # pc[p]

\* no request is in flight
Quiet == \A p \in Procs : pc[p] \in {"idle", "responded"}

\* C21: every record's status is "borrowed" or "returned" after every step, and
\* a record that a step adds to the ledger is "borrowed".
C21_NeverOverdue ==
  [][\A i \in 1..Len(borrows') :
       /\ borrows'[i].status \in {"borrowed", "returned"}
       /\ i > Len(borrows) => borrows'[i].status = "borrowed"]_vars

\* C21 witness: the ledger holds a record that was returned and one created after it
C21_Witness ==
  /\ Len(borrows) = 2
  /\ borrows[1].status = "returned" /\ borrows[2].status = "borrowed"

\* C22: after every step a record has a returnDate exactly when its status is
\* "returned", and a returnDate that is set is never changed by a step.
C22_ReturnDateSetOnce ==
  [][\A i \in 1..Len(borrows') :
       /\ (borrows'[i].returnDate # NoDate) <=> (borrows'[i].status = "returned")
       /\ (i <= Len(borrows) /\ borrows[i].returnDate # NoDate)
            => borrows'[i].returnDate = borrows[i].returnDate]_vars

\* C23: in borrowBook the save of the decremented copies is a step of its own,
\* before the record is created; when createBorrow then rejects the record, the
\* call ends with an error, no record is added and the copies stay decremented.
C23_DecrementBeforeCreate ==
  [][\A p \in Procs :
       /\ (Acts(p) /\ pc[p] = "borrow_save" /\ pc'[p] = "borrow_create")
          => (books' = [books EXCEPT ![ctx[p].bookId] = @ - 1] /\ borrows' = borrows)
       /\ (Acts(p) /\ pc[p] = "borrow_create" /\ ctx[p].dueDate = BadDate)
          => /\ pc'[p] = "responded" /\ resp'[p].status = 500
             /\ borrows' = borrows
             /\ books' = books
             /\ books[ctx[p].bookId] = ctx[p].copies
       /\ (Acts(p) /\ pc[p] = "responded") => (books' = books /\ borrows' = borrows)]_vars

\* C23 witness: a borrow has failed in createBorrow; the book is one copy down
\* and has no record
C23_Witness ==
  \E p \in Procs :
    /\ pc[p] = "responded" /\ ctx[p].op = "borrow" /\ resp[p].status = 500
    /\ ctx[p].dueDate = BadDate
    /\ books[ctx[p].bookId] = created[ctx[p].bookId] - 1
    /\ RecordsOf(ctx[p].bookId) = {}

\* C24: in returnBook the status update is a step of its own, before the copies
\* are touched; a failure after it ends the call with the record "returned" and
\* the copies as they were; and a returnBook call on a "returned" record is
\* refused with "This book is not currently borrowed" and changes nothing, so
\* the increment is not made up.
C24_StatusBeforeIncrement ==
  [][\A p \in Procs :
       /\ (Acts(p) /\ pc[p] = "return_update")
          => /\ borrows'[ctx[p].borrowId].status = "returned"
             /\ borrows'[ctx[p].borrowId].returnDate = ctx[p].date
             /\ books' = books
       /\ (Acts(p) /\ pc[p] \in {"return_findbook", "return_save"} /\ resp'[p].status = 500)
          => /\ borrows' = borrows
             /\ borrows[ctx[p].borrowId].status = "returned"
             /\ books' = books
       /\ (StartsReturn(p) /\ ctx'[p].borrowId \in 1..Len(borrows)
             /\ borrows[ctx'[p].borrowId].status = "returned")
          => /\ resp'[p] = errorHandler("This book is not currently borrowed")
             /\ books' = books
             /\ borrows' = borrows]_vars

\* C24 witness: the only loan of a one-copy book was returned, the return failed
\* after the status update, and the retry has been refused with the copy still missing
C24_Witness ==
  \E p \in Procs :
    /\ pc[p] = "responded" /\ ctx[p].op = "return"
    /\ resp[p] = errorHandler("This book is not currently borrowed")
    /\ Len(borrows) = 1 /\ ctx[p].borrowId = 1 /\ borrows[1].status = "returned"
    /\ created[borrows[1].bookId] = 1 /\ books[borrows[1].bookId] = 0

\* C25: with calls running one at a time and never failing between their two
\* writes, and no book updated or deleted, whenever no call is running every
\* book's copies plus its "borrowed" records is the copies it was created with.
C25_Conservation ==
  Quiet => \A b \in Books : books[b] + Cardinality(BorrowedOf(b)) = created[b]

\* C25 witness: between calls, a book has a returned record and a borrowed one
C25_Witness ==
  /\ Quiet
  /\ \E b \in Books : Returned(b) # {} /\ BorrowedOf(b) # {}

\* C26: no lost update. Whenever no call is running, every book's copies is the
\* copies it was created with, less the records created for it (one per
\* successful borrow), plus its returned records.
C26_NoLostUpdate ==
  Quiet => \A b \in Books :
             books[b] = created[b] - Cardinality(RecordsOf(b)) + Cardinality(Returned(b))

\* C27: of the returnBook calls on one record at most one succeeds.
C27_OneReturnSucceeds ==
  \A p, q \in Procs :
    (Answered(p, "return") /\ Answered(q, "return") /\ ctx[p].borrowId = ctx[q].borrowId)
    => p = q

Lent == {b \in DOMAIN books : RecordsOf(b) # {}}

\* C29: a most-borrowed report for top = N has exactly min(N, number of stored
\* books with a record) entries, each for a stored book, deleted books or not.
C29_MostBorrowedAfterDelete ==
  \A p \in Procs :
    Answered(p, "mostBorrowed")
    => /\ Len(resp[p].data) =
            IF TopOf(ctx[p].top) < Cardinality(Lent) THEN TopOf(ctx[p].top) ELSE Cardinality(Lent)
       /\ \A i \in 1..Len(resp[p].data) : resp[p].data[i].bookId \in DOMAIN books

\* C30: frame of the workflow. No step removes a record or changes a record's
\* userId, bookId, borrowDate or dueDate; the save of a borrow changes only the
\* target book's copies, its create only appends one record; the update of a
\* return changes only the target record, its save only the copies of that
\* record's book; every other step of a call changes no book and no record.
C30_WorkflowFrame ==
  [][/\ Len(borrows') >= Len(borrows)
     /\ \A i \in 1..Len(borrows) :
          /\ borrows'[i].userId = borrows[i].userId
          /\ borrows'[i].bookId = borrows[i].bookId
          /\ borrows'[i].borrowDate = borrows[i].borrowDate
          /\ borrows'[i].dueDate = borrows[i].dueDate
     /\ \A p \in Procs :
          Acts(p) =>
            CASE pc[p] = "borrow_save" ->
                   /\ borrows' = borrows
                   /\ \A b \in Books : b # ctx[p].bookId => books'[b] = books[b]
              [] pc[p] = "borrow_create" ->
                   /\ books' = books
                   /\ Len(borrows') = Len(borrows) + 1
                   /\ SubSeq(borrows', 1, Len(borrows)) = borrows
              [] pc[p] = "return_update" ->
                   /\ books' = books
                   /\ Len(borrows') = Len(borrows)
                   /\ \A i \in 1..Len(borrows) : i # ctx[p].borrowId => borrows'[i] = borrows[i]
              [] pc[p] = "return_save" ->
                   /\ borrows' = borrows
                   /\ \A b \in Books :
                        b # borrows[ctx[p].borrowId].bookId => books'[b] = books[b]
              [] OTHER -> books' = books /\ borrows' = borrows]_vars

\* C30 witness: with a loan of each book outstanding, one has been returned and
\* the other stands as it was created
C30_Witness ==
  /\ Len(borrows) = 2 /\ borrows[1].bookId # borrows[2].bookId
  /\ borrows[1].status = "returned" /\ borrows[2].status = "borrowed"
  /\ books[borrows[1].bookId] = created[borrows[1].bookId]
  /\ books[borrows[2].bookId] = created[borrows[2].bookId] - 1

====
